---- MODULE Spec2Model ----
(***************************************************************************)
(* Model of the timetable scheduler's Python interface                     *)
(* (Prolog/timetable_py.py): the TimetableScheduler object, the catalog it *)
(* loads, generate_schedule on its Prolog and mock paths, and              *)
(* check_conflicts.  The Prolog knowledge base and its solver              *)
(* (timetable_scheduler.pl) are modelled at the level of the contract the  *)
(* specification gives for them (sections 3, 4.2 and 6).                   *)
(***************************************************************************)
EXTENDS Integers, Sequences, FiniteSets, TLC

\* Course durations of the knowledge bases explored: 1..MaxDuration hours.
MaxDuration == 2

VARIABLES
    kb,               \* the consulted Prolog knowledge base (self.prolog)
    prolog_available, \* self.prolog_available
    courses,          \* self.courses    : id -> Course
    time_slots,       \* self.time_slots : id -> TimeSlot
    rooms,            \* self.rooms      : id -> Room
    schedule,         \* self.schedule   : list of ScheduleEntry
    ret,              \* value returned by the last generate_schedule call
    raised,           \* the last generate_schedule call let an exception out
    outcome,          \* what the solver did during the last generate_schedule
    prev_schedule,    \* self.schedule as it was when that call started
    last_op,          \* the last operation called on the scheduler
    conflicts,        \* list returned by the last check_conflicts call made
                      \* since the schedule was stored (<<>> when none was)
    teacher_slots,    \* check_conflicts' local dict, as that call left it
    room_slots        \* check_conflicts' local dict, as that call left it

vars == <<kb, prolog_available, courses, time_slots, rooms, schedule, ret,
          raised, outcome, prev_schedule, last_op, conflicts, teacher_slots,
          room_slots>>

catalog == <<courses, time_slots, rooms>>

(***************************************************************************)
(* The dataclasses.  A ScheduleEntry holds references to catalog objects;  *)
(* a reference is modelled by the object's key in the catalog dict, and    *)
(* an attribute read (entry.course.duration) by a lookup through it.       *)
(***************************************************************************)
Course(id, name, teacher_id, teacher_name, duration, room_type) ==
    [id |-> id, name |-> name, teacher_id |-> teacher_id,
     teacher_name |-> teacher_name, duration |-> duration,
     room_type |-> room_type]

TimeSlot(id, day, start_time, end_time, duration) ==
    [id |-> id, day |-> day, start_time |-> start_time,
     end_time |-> end_time, duration |-> duration]

Room(id, room_type, capacity) ==
    [id |-> id, room_type |-> room_type, capacity |-> capacity]

ScheduleEntry(course, time_slot, room) ==
    [course |-> course, time_slot |-> time_slot, room |-> room]

CourseOf(e) == courses[e.course]
SlotOf(e) == time_slots[e.time_slot]
RoomOf(e) == rooms[e.room]

(***************************************************************************)
(* _load_mock_data                                                         *)
(***************************************************************************)
MockCourses ==
    ("cs101" :> Course("cs101", "Computer Science 101", "t001", "Dr. Smith", 2, "computer_lab")) @@
    ("cs102" :> Course("cs102", "Data Structures", "t002", "Prof. Johnson", 2, "computer_lab")) @@
    ("math101" :> Course("math101", "Calculus I", "t003", "Dr. Brown", 1, "classroom")) @@
    ("math102" :> Course("math102", "Linear Algebra", "t004", "Prof. Davis", 2, "classroom")) @@
    ("phy101" :> Course("phy101", "Physics I", "t005", "Dr. Wilson", 2, "physics_lab"))

MockTimeSlots ==
    ("slot1" :> TimeSlot("slot1", "monday", 800, 900, 1)) @@
    ("slot2" :> TimeSlot("slot2", "monday", 900, 1000, 1)) @@
    ("slot3" :> TimeSlot("slot3", "monday", 1000, 1200, 2)) @@
    ("slot4" :> TimeSlot("slot4", "tuesday", 800, 900, 1)) @@
    ("slot5" :> TimeSlot("slot5", "tuesday", 1000, 1200, 2))

MockRooms ==
    ("r001" :> Room("r001", "computer_lab", 30)) @@
    ("r002" :> Room("r002", "classroom", 40)) @@
    ("r003" :> Room("r003", "physics_lab", 20))

(***************************************************************************)
(* The Prolog knowledge base (not part of the Python source): the Domain   *)
(* Catalog of the specification, section 3.  The knowledge bases explored  *)
(* hold two courses, two time slots and two rooms; some ids are also ids   *)
(* of the mock catalog ("cs101", "slot1", "slot3", "r001"), some are not   *)
(* ("bio201", "r009").  order is the catalog's insertion order.            *)
(***************************************************************************)
KBTeacherName ==
    ("t001" :> "Dr. Smith") @@ ("t002" :> "Prof. Johnson") @@
    ("t009" :> "Dr. Smith")

KBCourse(name, teacherId, durationUnits, requiredRoomType) ==
    [name |-> name, teacherId |-> teacherId,
     teacherName |-> KBTeacherName[teacherId],
     durationUnits |-> durationUnits, requiredRoomType |-> requiredRoomType]

KBSlot(day, startTime, endTime) ==
    [day |-> day, startTime |-> startTime, endTime |-> endTime]

KBRoom(roomType, capacity) == [roomType |-> roomType, capacity |-> capacity]

KBSlotShapes ==
    { KBSlot("monday", 800, 1000),      \* starts with slot1, two hours
      KBSlot("monday", 1000, 1200),
      KBSlot("tuesday", 930, 1100) }    \* an hour and a half

KnowledgeBases ==
    { [courses |->
           ("cs101" :> KBCourse("Computer Science 101", "t001", d1, "computer_lab")) @@
           ("bio201" :> KBCourse("Biology II", t2, d2, rt2)),
       slots |->
           ("slot1" :> KBSlot("monday", 800, 900)) @@ ("slot3" :> s3),
       rooms |->
           ("r001" :> KBRoom("computer_lab", 30)) @@ ("r009" :> KBRoom(rt9, 25)),
       order |-> <<"cs101", "bio201">>] :
      d1 \in 1..MaxDuration, d2 \in 1..MaxDuration,
      t2 \in DOMAIN KBTeacherName,
      rt2 \in {"computer_lab", "classroom"},
      s3 \in KBSlotShapes,
      rt9 \in {"computer_lab", "classroom"} }

\* No knowledge base: pyswip is not installed, or consult() failed.
NoKB == [courses |-> <<>>, slots |-> <<>>, rooms |-> <<>>, order |-> <<>>]

(***************************************************************************)
(* Constraint Evaluator and the result of the search (specification        *)
(* sections 3, 4.2, 4.3 and 6): generate returns a complete Schedule that  *)
(* satisfies the five invariants, or a failure when there is none.         *)
(***************************************************************************)
\* durationUnits of a slot: (endTime - startTime) in the unit of course
\* durations, whole hours of a 24-hour clock encoding.
Minutes(t) == (t \div 100) * 60 + (t % 100)

SlotDurationUnits(slot) == (Minutes(slot.endTime) - Minutes(slot.startTime)) \div 60

fits(slot, course) == course.durationUnits <= SlotDurationUnits(slot)

matches(room, course) == room.roomType = course.requiredRoomType

\* a : courseId -> <<slotId, roomId>>, every course exactly once.
ValidAssignment(base, a) ==
    /\ \A c \in DOMAIN a :
          /\ fits(base.slots[a[c][1]], base.courses[c])
          /\ matches(base.rooms[a[c][2]], base.courses[c])
    /\ \A c1, c2 \in DOMAIN a :
          c1 # c2 =>
             /\ ~(base.courses[c1].teacherId = base.courses[c2].teacherId
                    /\ a[c1][1] = a[c2][1])
             /\ ~(a[c1][2] = a[c2][2] /\ a[c1][1] = a[c2][1])

Solutions(base) ==
    { a \in [DOMAIN base.courses -> (DOMAIN base.slots) \X (DOMAIN base.rooms)] :
         ValidAssignment(base, a) }

\* get_schedule(Schedule): the list of (courseId, slotId, roomId) triples,
\* in the catalog's order.
Triples(base, a) ==
    [i \in DOMAIN base.order |->
        <<base.order[i], a[base.order[i]][1], a[base.order[i]][2]>>]

(***************************************************************************)
(* __init__, _load_data, _load_from_prolog                                 *)
(***************************************************************************)
LoadMockData ==
    [courses |-> MockCourses, time_slots |-> MockTimeSlots, rooms |-> MockRooms]

\* get_course_details gives no teacher id: teacher_id is "" for every course.
\* The slot's duration is computed from the clock encoding by // 100.
LoadFromProlog(base) ==
    [courses |->
        [id \in DOMAIN base.courses |->
            Course(id, base.courses[id].name, "", base.courses[id].teacherName,
                   base.courses[id].durationUnits,
                   base.courses[id].requiredRoomType)],
     time_slots |->
        [id \in DOMAIN base.slots |->
            TimeSlot(id, base.slots[id].day, base.slots[id].startTime,
                     base.slots[id].endTime,
                     (base.slots[id].endTime - base.slots[id].startTime) \div 100)],
     rooms |->
        [id \in DOMAIN base.rooms |->
            Room(id, base.rooms[id].roomType, base.rooms[id].capacity)]]

\* consulted: pyswip is installed and consult() succeeded.
\* load_raises: a query of _load_from_prolog raised; the except clause
\* replaces the whole catalog by the mock data and leaves prolog_available.
LoadData(consulted, base, load_raises) ==
    IF consulted /\ ~load_raises THEN LoadFromProlog(base) ELSE LoadMockData

NoOutcome == [kind |-> "none", triples |-> <<>>, upto |-> 0]

Init ==
    \E base \in KnowledgeBases \cup {NoKB}, load_raises \in BOOLEAN :
        LET consulted == base # NoKB
            cat == LoadData(consulted, base, load_raises)
        IN  /\ kb = base
            /\ prolog_available = consulted
            /\ courses = cat.courses
            /\ time_slots = cat.time_slots
            /\ rooms = cat.rooms
            /\ schedule = <<>>
            /\ ret = "None"
            /\ raised = FALSE
            /\ outcome = NoOutcome
            /\ prev_schedule = <<>>
            /\ last_op = "init"
            /\ conflicts = <<>>
            /\ teacher_slots = {}
            /\ room_slots = {}

(***************************************************************************)
(* What the three Prolog queries of _generate_prolog_schedule can do in    *)
(* one call: raise (pyswip), find no timetable (there is none, or the      *)
(* search budget of specification section 4.3 is exhausted), or yield the  *)
(* schedule; reading the schedule can raise after upto triples have been   *)
(* handled.                                                                *)
(***************************************************************************)
Outcome(kind, triples, upto) == [kind |-> kind, triples |-> triples, upto |-> upto]

SolverOutcomes(base) ==
    {Outcome("clear_error", <<>>, 0), Outcome("generate_error", <<>>, 0),
     Outcome("no_solution", <<>>, 0)}
    \cup { Outcome("ok", Triples(base, a), Len(base.order)) : a \in Solutions(base) }
    \cup { Outcome("read_error", Triples(base, a), k) :
              a \in Solutions(base), k \in 0..Len(base.order) }

SolverFailed(o) ==
    o.kind \in {"clear_error", "generate_error", "no_solution", "read_error"}

(***************************************************************************)
(* generate_schedule                                                       *)
(***************************************************************************)
\* Known with the slot and room tests forgotten.
KnownCourseOnly(t) == t[1] \in DOMAIN courses

Known(t) ==
    /\ t[1] \in DOMAIN courses
    /\ t[2] \in DOMAIN time_slots
    /\ t[3] \in DOMAIN rooms

\* The loop over the triples: an entry is appended for each known triple.
Hydrate(triples) ==
    LET kept == SelectSeq(triples, Known)
    IN  [i \in DOMAIN kept |-> ScheduleEntry(kept[i][1], kept[i][2], kept[i][3])]

\* TryBody with self.schedule.clear() moved above the test of solutions.
TryBodyClearFirst(before, o) ==
    CASE o.kind \in {"clear_error", "generate_error"} ->
            [schedule |-> before, ret |-> "None", exc |-> TRUE]
      [] o.kind = "no_solution" ->
            [schedule |-> <<>>, ret |-> "False", exc |-> FALSE]
      [] o.kind = "read_error" ->
            [schedule |-> Hydrate(SubSeq(o.triples, 1, o.upto)),
             ret |-> "None", exc |-> TRUE]
      [] OTHER ->
            [schedule |-> Hydrate(o.triples), ret |-> "True", exc |-> FALSE]

\* The body of the try block; exc: an exception left it.
TryBody(before, o) ==
    CASE o.kind \in {"clear_error", "generate_error"} ->
            [schedule |-> before, ret |-> "None", exc |-> TRUE]
      [] o.kind = "no_solution" ->
            [schedule |-> before, ret |-> "False", exc |-> FALSE]
      [] o.kind = "read_error" ->
            [schedule |-> Hydrate(SubSeq(o.triples, 1, o.upto)),
             ret |-> "None", exc |-> TRUE]
      [] OTHER ->
            [schedule |-> Hydrate(o.triples), ret |-> "True", exc |-> FALSE]

\* ExceptHandler without the except clause: the exception leaves the call.
NoExceptHandler(r) == [schedule |-> r.schedule, ret |-> r.ret, raised |-> r.exc]

\* except Exception: print and return False.
ExceptHandler(r) ==
    IF r.exc
    THEN [schedule |-> r.schedule, ret |-> "False", raised |-> FALSE]
    ELSE [schedule |-> r.schedule, ret |-> r.ret, raised |-> FALSE]

GeneratePrologSchedule(before, o) == ExceptHandler(TryBody(before, o))

MockEntries ==
    << ScheduleEntry("cs101", "slot3", "r001"),
       ScheduleEntry("math101", "slot1", "r002"),
       ScheduleEntry("phy101", "slot5", "r003") >>

\* The subscripts self.courses["cs101"], ... raise KeyError, outside any
\* try block, when the catalog lacks the key.
GenerateMockSchedule(before) ==
    IF \A i \in DOMAIN MockEntries :
          /\ MockEntries[i].course \in DOMAIN courses
          /\ MockEntries[i].time_slot \in DOMAIN time_slots
          /\ MockEntries[i].room \in DOMAIN rooms
    THEN [schedule |-> MockEntries, ret |-> "True", raised |-> FALSE]
    ELSE [schedule |-> before, ret |-> "None", raised |-> TRUE]

\* The schedule a call with outcome o stores.
ScheduleAfter(before, o) ==
    IF o.kind = "mock"
    THEN GenerateMockSchedule(before).schedule
    ELSE GeneratePrologSchedule(before, o).schedule

Stored(r, o) ==
    /\ schedule' = r.schedule
    /\ ret' = r.ret
    /\ raised' = r.raised
    /\ outcome' = o
    /\ prev_schedule' = schedule
    /\ last_op' = "generate"
    /\ conflicts' = <<>>
    /\ teacher_slots' = {}
    /\ room_slots' = {}
    /\ UNCHANGED <<kb, prolog_available, courses, time_slots, rooms>>

GenerateProlog ==
    /\ prolog_available
    /\ \E o \in SolverOutcomes(kb) : Stored(GeneratePrologSchedule(schedule, o), o)

GenerateMock ==
    /\ ~prolog_available
    /\ Stored(GenerateMockSchedule(schedule), Outcome("mock", <<>>, 0))

(***************************************************************************)
(* check_conflicts                                                         *)
(***************************************************************************)
\* f"{day}_{start_time}": start_time is an integer, so the string determines
\* the pair and the pair the string.
SlotKey(e) == <<SlotOf(e).day, SlotOf(e).start_time>>

\* The f-strings of the two messages, by their parts.
Conflict(rule, who, at) == [rule |-> rule, who |-> who, at |-> at]

\* teacher_slots = {} and room_slots = {} at the start of every call.  A dict
\* of sets is modelled by the set of its (key, member) pairs.
\* LocalTeacherSlots with the dict kept from one call to the next.
StaleTeacherSlots == teacher_slots

LocalTeacherSlots == {}

LocalRoomSlots == {}

RECURSIVE Scan(_, _)
Scan(entries, acc) ==
    IF entries = <<>>
    THEN acc
    ELSE LET e == Head(entries)
             teacher == CourseOf(e).teacher_name
             room == RoomOf(e).id
             slot_key == SlotKey(e)
             t_hit == <<teacher, slot_key>> \in acc.teacher_slots
             r_hit == <<room, slot_key>> \in acc.room_slots
             c1 == IF t_hit
                   THEN Append(acc.conflicts, Conflict("teacher", teacher, slot_key))
                   ELSE acc.conflicts
             c2 == IF r_hit
                   THEN Append(c1, Conflict("room", room, slot_key))
                   ELSE c1
         IN  Scan(Tail(entries),
                  [conflicts |-> c2,
                   teacher_slots |-> IF t_hit THEN acc.teacher_slots
                                     ELSE acc.teacher_slots \cup {<<teacher, slot_key>>},
                   room_slots |-> IF r_hit THEN acc.room_slots
                                  ELSE acc.room_slots \cup {<<room, slot_key>>}])

CheckConflictsResult ==
    Scan(schedule, [conflicts |-> <<>>, teacher_slots |-> LocalTeacherSlots,
                    room_slots |-> LocalRoomSlots])

Checked == last_op \in {"check", "recheck"}

CheckConflicts ==
    /\ conflicts' = CheckConflictsResult.conflicts
    /\ teacher_slots' = CheckConflictsResult.teacher_slots
    /\ room_slots' = CheckConflictsResult.room_slots
    /\ last_op' = IF Checked THEN "recheck" ELSE "check"
    /\ UNCHANGED <<kb, prolog_available, courses, time_slots, rooms, schedule,
                   ret, raised, outcome, prev_schedule>>

Next == GenerateProlog \/ GenerateMock \/ CheckConflicts

Spec == Init /\ [][Next]_vars

(***************************************************************************)
(* Properties                                                              *)
(***************************************************************************)
Generated == outcome.kind # "none"

Entries == {schedule[i] : i \in DOMAIN schedule}

Occurrences(c) == Cardinality({i \in DOMAIN schedule : schedule[i].course = c})

\* C1: when generate_schedule returned True, every course of self.courses
\* appears exactly once in the stored schedule.
C1_EveryCourseExactlyOnce ==
    ret = "True" => \A c \in DOMAIN courses : Occurrences(c) = 1

\* C2: check_conflicts, called on the schedule stored by a generate_schedule
\* call that returned True, returns the empty list.
C2_GeneratedScheduleHasNoConflicts ==
    (Checked /\ ret = "True") => conflicts = <<>>

TeacherDoubleBooked ==
    \E i, j \in DOMAIN schedule :
        /\ i # j
        /\ CourseOf(schedule[i]).teacher_id = CourseOf(schedule[j]).teacher_id
        /\ SlotOf(schedule[i]).id = SlotOf(schedule[j]).id

RoomDoubleBooked ==
    \E i, j \in DOMAIN schedule :
        /\ i # j
        /\ RoomOf(schedule[i]).id = RoomOf(schedule[j]).id
        /\ SlotOf(schedule[i]).id = SlotOf(schedule[j]).id

DurationMismatch ==
    \E e \in Entries : CourseOf(e).duration > SlotOf(e).duration

TypeMismatch ==
    \E e \in Entries : RoomOf(e).room_type # CourseOf(e).room_type

\* C3: in the schedule stored by a successful generate_schedule no two
\* entries share teacher_id and time-slot id, and no two share room id and
\* time-slot id.
C3_NoDoubleBooking ==
    ret = "True" => (~TeacherDoubleBooked /\ ~RoomDoubleBooked)

\* C4: check_conflicts returns the empty list only if the stored schedule has
\* no teacher double-booking, no room double-booking, no duration mismatch
\* and no type mismatch.
C4_EmptyListMeansNoBreach ==
    (Checked /\ conflicts = <<>>) =>
        (~TeacherDoubleBooked /\ ~RoomDoubleBooked /\ ~DurationMismatch /\ ~TypeMismatch)

\* C5: every entry of the schedule stored by a successful generate_schedule
\* has a course no longer than its slot and a room of the course's type.
C5_EntriesLocallyValid ==
    ret = "True" => (~DurationMismatch /\ ~TypeMismatch)

\* C6: generate_schedule never lets an exception out, and returns False
\* whenever the solver failed (no solution, query error, malformed result).
C6_FailureIsReturnedNotRaised ==
    /\ ~raised
    /\ (Generated /\ SolverFailed(outcome)) => ret = "False"

\* C6 witness: a call made when a schedule was already stored ran into an
\* error while reading the solver's schedule.
C6_Witness ==
    /\ outcome.kind = "read_error"
    /\ prev_schedule # <<>>
    /\ ret = "False"

\* C7: the schedule stored after a generate_schedule call is the one that
\* call would store starting from an empty schedule: it depends on the
\* catalog and the call's solver outcome, not on earlier calls.
C7_ScheduleIsFresh ==
    Generated => schedule = ScheduleAfter(<<>>, outcome)

\* C8: every entry of the stored schedule references a course, a time slot
\* and a room of the catalog.
C8_EntriesReferenceCatalog ==
    \A e \in Entries :
        /\ e.course \in DOMAIN courses
        /\ e.time_slot \in DOMAIN time_slots
        /\ e.room \in DOMAIN rooms

\* C8 witness: the solver named ids the catalog lacks; the triples with an
\* unknown id made no entry, the others did.
C8_Witness ==
    /\ ret = "True"
    /\ prolog_available
    /\ 0 < Len(schedule)
    /\ Len(schedule) < Len(outcome.triples)

\* C9: a check_conflicts call leaves the schedule and the catalog as they
\* were, and a call that follows another on the unmodified schedule returns
\* the same list.
C9_CheckConflictsIdempotent ==
    [][ (last_op' \in {"check", "recheck"}) =>
            /\ schedule' = schedule
            /\ catalog' = catalog
            /\ (Checked => conflicts' = conflicts) ]_vars

\* C9 witness: check_conflicts ran twice in a row and reported violations.
C9_Witness ==
    /\ last_op = "recheck"
    /\ conflicts # <<>>

\* C10 as stated: whenever generate_schedule returned False the stored
\* schedule is what it was before the call.
C10_FailureKeepsSchedule ==
    ret = "False" => schedule = prev_schedule

\* C10 amended: whenever generate_schedule returned False, the stored
\* schedule is what it was before the call, unless the error was raised while
\* reading the solver's schedule: then it holds exactly the entries made from
\* the triples read before the error.
C10_FailureKeepsScheduleOrReadPrefix ==
    ret = "False" =>
        IF outcome.kind = "read_error"
        THEN schedule = Hydrate(SubSeq(outcome.triples, 1, outcome.upto))
        ELSE schedule = prev_schedule

\* C10 witness: a call that failed while reading left one new entry where
\* two entries were stored before.
C10_Witness ==
    /\ ret = "False"
    /\ outcome.kind = "read_error"
    /\ Len(prev_schedule) = 2
    /\ Len(schedule) = 1

====
